---- MODULE Spec2Model ----
(***************************************************************************)
(* The four point condition (fpc.py): fpc_sums, four_point_condition and   *)
(* is_additive, modelled as calls on a distance matrix.                    *)
(*                                                                         *)
(* Numbers.  Distances are Python ints: a distance of 3 is the int 3, and  *)
(* sums, differences and squares of ints are exact.  A tolerance is held   *)
(* in hundredths: 1 is the float 1e-2 (the default), 100 the float 1.0,    *)
(* -1 the float -0.01.  Python compares an int k with a float exactly,     *)
(* and the float nearest to t/100 has the same integers below it as t/100  *)
(* has, so k < tolerance in the code is 100 * k < t here.                  *)
(*                                                                         *)
(* Lists.  A Python list is a sequence; Python index i is position i + 1.  *)
(***************************************************************************)
EXTENDS Integers, Sequences, FiniteSets

VARIABLES dist_matrix, called, quartet, tolerance, raised, sums, ret

vars == <<dist_matrix, called, quartet, tolerance, raised, sums, ret>>

(* ------------------------------- bounds -------------------------------- *)

\* Largest matrix dimension; quartet entries are drawn from 0..MaxN-1, so a
\* matrix smaller than MaxN also meets indices that are out of its range.
MaxN == 4

\* Largest amount by which a distance of a tree metric is moved.
MaxDelta == 2

\* Largest whole tolerance passed to a call (2 is the float 2.0).
MaxTol == 2

(* ------------------------- the program's constants --------------------- *)

\* tolerance=1e-2, the default of four_point_condition and is_additive, in
\* hundredths.
DefaultTolerance == 1

\* A slip in the table: the third row pairs positions 0,1 again.
fpc_permutations_repeated == << <<0, 1, 2, 3>>, <<0, 2, 1, 3>>, <<0, 1, 3, 2>> >>

\* _fpc_permutations: the three pairings of four positions.
_fpc_permutations == << <<0, 1, 2, 3>>, <<0, 2, 1, 3>>, <<0, 3, 1, 2>> >>

\* The names the module binds at top level.  There is no import statement:
\* the name itr, which is_additive reads, is bound nowhere.
ModuleGlobals ==
    {"_fpc_permutations", "fpc_sums", "four_point_condition", "is_additive"}

(* ------------------------------- inputs -------------------------------- *)

Indices == 0 .. (MaxN - 1)

\* Every sequence of four indices, repeated and out-of-range ones included.
QuartetInputs == [1..4 -> Indices]

\* Tolerances, in hundredths: -0.01, 0, the default 0.01 and the whole
\* numbers 1.0 .. MaxTol.
Tolerances == {-1, 0, DefaultTolerance} \cup {100 * t : t \in 1..MaxTol}

\* The n x n matrix of a star tree whose n leaf edges all have length 1.
StarMatrix(n) ==
    [i \in 1..n |-> [j \in 1..n |-> IF i = j THEN 0 ELSE 1 + 1]]

\* The n x n matrix of a caterpillar: a path of n spine nodes joined by edges
\* of length 1, leaf i hanging from spine node i by an edge of length 1.
CaterpillarMatrix(n) ==
    [i \in 1..n |-> [j \in 1..n |->
        IF i = j THEN 0 ELSE 1 + (IF i < j THEN j - i ELSE i - j) + 1]]

\* D with delta added to entry [i][j] (Python indices) and, when both, to
\* entry [j][i] as well.
Perturbed(D, i, j, delta, both) ==
    [r \in 1..Len(D) |-> [c \in 1..Len(D) |->
        IF (r = i + 1 /\ c = j + 1) \/ (both /\ r = j + 1 /\ c = i + 1)
        THEN D[r][c] + delta ELSE D[r][c]]]

\* The two tree shapes on n leaves.
TreeInputs(n) == {StarMatrix(n), CaterpillarMatrix(n)}

\* A tree metric with one distance moved, on both sides of the diagonal
\* (the matrix stays symmetric) or on one side only (it does not).
MovedInputs(n) ==
    {Perturbed(p[1], p[2], p[3], p[4], p[5]) :
        p \in {x \in TreeInputs(n) \X (0..(n-1)) \X (0..(n-1))
                     \X (1..MaxDelta) \X BOOLEAN : x[2] # x[3]}}

MatrixInputs == UNION {TreeInputs(n) \cup MovedInputs(n) : n \in 0..MaxN}

(* --------------------------- Python built-ins -------------------------- *)

\* len(dist_matrix)
len(D) == Len(D)

\* distances[i][j] raises IndexError unless both indices are in range.
\* (The inputs hold no negative index, which Python would count from the end.)
InRange(D, i) == i >= 0 /\ i < len(D)

\* distances[i][j]
At(D, i, j) == D[i + 1][j + 1]

\* max(sums) of a non-empty list
Max(s) == CHOOSE m \in {s[x] : x \in 1..Len(s)} :
              \A y \in 1..Len(s) : s[y] <= m

\* A slip in the comparison: <= where the code has <.
CountWithinOrEqual(s, s_max, tol) ==
    Cardinality({x \in 1..Len(s) :
                    100 * ((s_max - s[x]) * (s_max - s[x])) <= tol})

\* sum((s_max-s)**2 < tolerance for s in sums): the number of list positions
\* whose squared distance from s_max (an int) is below the tolerance (in
\* hundredths).
CountWithin(s, s_max, tol) ==
    Cardinality({x \in 1..Len(s) :
                    100 * ((s_max - s[x]) * (s_max - s[x])) < tol})

(* ------------------------------- fpc_sums ------------------------------ *)

\* permutations = [tuple(q[i] for i in p) for p in _fpc_permutations]
MappedPermutations(q) ==
    [p \in 1..Len(_fpc_permutations) |->
        [x \in 1..4 |-> q[_fpc_permutations[p][x] + 1]]]

\* The key ((i,j), (k,l)) of one mapped permutation.
PairingKey(m) == << <<m[1], m[2]>>, <<m[3], m[4]>> >>

\* A slip in the indices: the sum of the other pairing, [i][k] + [j][l].
PairingSumCrossed(D, m) == At(D, m[1], m[3]) + At(D, m[2], m[4])

\* distances[i][j] + distances[k][l]
PairingSum(D, m) == At(D, m[1], m[2]) + At(D, m[3], m[4])

\* A dict as the sequence of its (key, value) items in insertion order.
\* d[key] = value: an existing key keeps its place and takes the new value,
\* a new key goes to the end.
DictSet(items, key, value) ==
    IF \E x \in 1..Len(items) : items[x].key = key
    THEN [x \in 1..Len(items) |->
             IF items[x].key = key THEN [key |-> key, value |-> value]
             ELSE items[x]]
    ELSE Append(items, [key |-> key, value |-> value])

RECURSIVE SumsUpTo(_, _, _)
\* The dict comprehension after its first p permutations.
SumsUpTo(D, perms, p) ==
    IF p = 0 THEN <<>>
    ELSE DictSet(SumsUpTo(D, perms, p - 1),
                 PairingKey(perms[p]), PairingSum(D, perms[p]))

\* fpc_sums(distances, quartet): the dict of pairing sums, or IndexError when
\* an entry of the quartet is no index of the matrix (every permutation reads
\* all four entries, so the first one already raises).
fpc_sums(distances, q) ==
    IF \E x \in 1..4 : ~InRange(distances, q[x])
    THEN [raised |-> "IndexError", items |-> <<>>]
    ELSE [raised |-> "none",
          items  |-> SumsUpTo(distances, MappedPermutations(q),
                              Len(_fpc_permutations))]

\* list(d.values())
Values(items) == [x \in 1..Len(items) |-> items[x].value]

(* -------------------------- four_point_condition ----------------------- *)

four_point_condition(D, q, tol) ==
    LET r == fpc_sums(D, q)
        s == Values(r.items)
    IN  IF r.raised # "none"
        THEN [raised |-> r.raised, value |-> FALSE]
        ELSE [raised |-> "none",
              value  |-> ~(CountWithin(s, Max(s), tol) < 2)]

(* ------------------------------ is_additive ---------------------------- *)

\* itertools.combinations(range(n), 4): the increasing 4-tuples.
Combinations(n) ==
    {c \in [1..4 -> 0..(n-1)] : c[1] < c[2] /\ c[2] < c[3] /\ c[3] < c[4]}

\* is_additive(dist_matrix, tolerance).  len() succeeds, then the name itr
\* is looked up: unbound, it raises NameError before any quartet is built.
is_additive(D, tol) ==
    LET n == len(D)
    IN  IF "itr" \notin ModuleGlobals
        THEN [raised |-> "NameError", value |-> FALSE]
        ELSE [raised |-> "none",
              value  |-> \A q \in Combinations(n) :
                             four_point_condition(D, q, tol).value]

(* ----------------------------- the machine ----------------------------- *)

\* A caller holds a matrix and has called nothing yet.
Init ==
    /\ dist_matrix \in MatrixInputs
    /\ called = "none"
    /\ quartet = <<>>
    /\ tolerance = DefaultTolerance
    /\ raised = "none"
    /\ sums = <<>>
    /\ ret = FALSE

CallFpcSums ==
    /\ called = "none"
    /\ \E q \in QuartetInputs :
         LET r == fpc_sums(dist_matrix, q)
         IN  /\ called' = "fpc_sums"
             /\ quartet' = q
             /\ raised' = r.raised
             /\ sums' = r.items
    /\ UNCHANGED <<dist_matrix, tolerance, ret>>

CallFourPointCondition ==
    /\ called = "none"
    /\ \E q \in QuartetInputs, tol \in Tolerances :
         LET r == four_point_condition(dist_matrix, q, tol)
         IN  /\ called' = "four_point_condition"
             /\ quartet' = q
             /\ tolerance' = tol
             /\ raised' = r.raised
             /\ sums' = fpc_sums(dist_matrix, q).items
             /\ ret' = r.value
    /\ UNCHANGED dist_matrix

CallIsAdditive ==
    /\ called = "none"
    /\ \E tol \in Tolerances :
         LET r == is_additive(dist_matrix, tol)
         IN  /\ called' = "is_additive"
             /\ tolerance' = tol
             /\ raised' = r.raised
             /\ ret' = r.value
    /\ UNCHANGED <<dist_matrix, quartet, sums>>

Next == CallFpcSums \/ CallFourPointCondition \/ CallIsAdditive

Spec == Init /\ [][Next]_vars

(* ----------------------- vocabulary of the claims ----------------------- *)

\* Four distinct indices, all in the range of the matrix.
ValidQuartet(D, q) ==
    /\ \A x \in 1..4 : InRange(D, q[x])
    /\ Cardinality({q[x] : x \in 1..4}) = 4

\* D[i][j] = D[j][i] everywhere.
Symmetric(D) ==
    \A i, j \in 0..(len(D) - 1) : At(D, i, j) = At(D, j, i)

\* The three pairing sums of a quartet, written out: 01|23, 02|13, 03|12.
ThreeSums(D, q) ==
    << At(D, q[1], q[2]) + At(D, q[3], q[4]),
       At(D, q[1], q[3]) + At(D, q[2], q[4]),
       At(D, q[1], q[4]) + At(D, q[2], q[3]) >>

\* The three sums sorted in decreasing order, s1 >= s2 >= s3: the order of
\* positions that puts them so.
SortedSums(D, q) ==
    LET t == ThreeSums(D, q)
        f == CHOOSE g \in {<<1, 2, 3>>, <<1, 3, 2>>, <<2, 1, 3>>,
                           <<2, 3, 1>>, <<3, 1, 2>>, <<3, 2, 1>>} :
                 t[g[1]] >= t[g[2]] /\ t[g[2]] >= t[g[3]]
    IN  <<t[f[1]], t[f[2]], t[f[3]]>>

\* s1 - s2, the gap between the two largest sums.
TopGap(D, q) == SortedSums(D, q)[1] - SortedSums(D, q)[2]

\* The quartet q with its four positions rearranged by pi.
Rearranged(q, pi) == [x \in 1..4 |-> q[pi[x]]]

Rearrangements == {pi \in [1..4 -> 1..4] : {pi[x] : x \in 1..4} = 1..4}

\* The AND of the four point condition over every 4-combination of 0..n-1.
AllQuartetsPass(D, tol) ==
    \A q \in Combinations(len(D)) :
        /\ four_point_condition(D, q, tol).raised = "none"
        /\ four_point_condition(D, q, tol).value

\* The keys of the returned dict.
Keys(items) == {items[x].key : x \in 1..Len(items)}

\* A key as a partition: the set of its two pairs, each pair a set.
AsPartition(key) == {{key[1][1], key[1][2]}, {key[2][1], key[2][2]}}

\* Every way to split the index set Q into two pairs.
PairPartitions(Q) ==
    LET pairs == {p \in SUBSET Q : Cardinality(p) = 2}
    IN  {P \in {{a, b} : a, b \in pairs} : Cardinality(P) = 2 /\ UNION P = Q}

(* ------------------------------- claims -------------------------------- *)

\* C7: for a quartet of 4 distinct valid indices fpc_sums returns exactly 3
\* entries, keyed (q0,q1)|(q2,q3), (q0,q2)|(q1,q3) and (q0,q3)|(q1,q2); each
\* key splits the quartet into two disjoint pairs covering all four indices,
\* the three keys are all the partitions of the quartet into two pairs, and
\* each value is D[x][y] + D[z][w] for its key ((x,y),(z,w)).
C7_ThreePairingSums ==
    (called = "fpc_sums" /\ ValidQuartet(dist_matrix, quartet)) =>
        LET q == quartet
            Q == {q[x] : x \in 1..4}
        IN  /\ raised = "none"
            /\ Len(sums) = 3
            /\ Cardinality(Keys(sums)) = 3
            /\ Keys(sums) = { << <<q[1], q[2]>>, <<q[3], q[4]>> >>,
                              << <<q[1], q[3]>>, <<q[2], q[4]>> >>,
                              << <<q[1], q[4]>>, <<q[2], q[3]>> >> }
            /\ \A k \in Keys(sums) :
                   /\ {k[1][1], k[1][2]} \cap {k[2][1], k[2][2]} = {}
                   /\ {k[1][1], k[1][2]} \cup {k[2][1], k[2][2]} = Q
            /\ {AsPartition(k) : k \in Keys(sums)} = PairPartitions(Q)
            /\ \A x \in 1..Len(sums) :
                   sums[x].value =
                       At(dist_matrix, sums[x].key[1][1], sums[x].key[1][2])
                     + At(dist_matrix, sums[x].key[2][1], sums[x].key[2][2])

\* C7 happens: fpc_sums has returned for an unsorted quartet of distinct
\* indices on a matrix whose three sums all differ.
C7_Witness ==
    /\ called = "fpc_sums"
    /\ ValidQuartet(dist_matrix, quartet)
    /\ quartet[1] > quartet[2]
    /\ Len(sums) = 3
    /\ Cardinality({sums[x].value : x \in 1..3}) = 3

\* C9: for a quartet of distinct valid indices and any tolerance (positive,
\* zero or negative) four_point_condition returns true exactly when
\* (s1 - s2)^2 < tolerance, s1 >= s2 >= s3 being the sorted sums; s3 plays
\* no part.
C9_CountEqualsSorted ==
    (called = "four_point_condition" /\ ValidQuartet(dist_matrix, quartet)) =>
        /\ raised = "none"
        /\ ret = (100 * (TopGap(dist_matrix, quartet)
                          * TopGap(dist_matrix, quartet)) < tolerance)

\* C9 happens: a quartet whose three sums all differ passes because its two
\* largest sums are within tolerance, the smallest being further away.
C9_Witness ==
    /\ called = "four_point_condition"
    /\ ValidQuartet(dist_matrix, quartet)
    /\ SortedSums(dist_matrix, quartet)[1] > SortedSums(dist_matrix, quartet)[2]
    /\ SortedSums(dist_matrix, quartet)[2] > SortedSums(dist_matrix, quartet)[3]
    /\ ret = TRUE

\* C2: permutation invariance.  On a symmetric matrix, every rearrangement
\* of a quartet of 4 distinct valid indices gets the answer the quartet got,
\* at the same tolerance.
C2_PermutationInvariance ==
    (/\ called = "four_point_condition"
     /\ Symmetric(dist_matrix)
     /\ ValidQuartet(dist_matrix, quartet)) =>
        \A pi \in Rearrangements :
            four_point_condition(dist_matrix, Rearranged(quartet, pi), tolerance)
                = [raised |-> raised, value |-> ret]

\* C2 happens: an unsorted quartet passed on a symmetric matrix whose three
\* sums are not all equal, so that which pairing is which matters.
C2_Witness ==
    /\ called = "four_point_condition"
    /\ Symmetric(dist_matrix)
    /\ ValidQuartet(dist_matrix, quartet)
    /\ quartet[1] > quartet[4]
    /\ SortedSums(dist_matrix, quartet)[1] # SortedSums(dist_matrix, quartet)[3]
    /\ ret = TRUE

\* C1: is_additive(D, tolerance) returns true if and only if
\* four_point_condition(D, q, tolerance) is true for every 4-combination q of
\* the indices 0..n-1.
C1_AdditiveIffEveryQuartet ==
    (called = "is_additive") =>
        /\ raised = "none"
        /\ ret = AllQuartetsPass(dist_matrix, tolerance)

\* C3: tree-metric soundness.  On the matrix of a weighted tree with n >= 4
\* leaves (a star or a caterpillar) is_additive returns true for every tolerance >= 0,
\* tolerance = 0 included.
C3_TreeMetricSoundness ==
    (/\ called = "is_additive"
     /\ len(dist_matrix) >= 4
     /\ dist_matrix \in TreeInputs(len(dist_matrix))
     /\ tolerance >= 0) =>
        (raised = "none" /\ ret = TRUE)

\* C4: with tolerance = 0 four_point_condition is an exact-equality check:
\* on a quartet of distinct valid indices it returns true if and only if the
\* two largest of the three pairing sums are exactly equal.
C4_ZeroToleranceIsEquality ==
    (/\ called = "four_point_condition"
     /\ tolerance = 0
     /\ ValidQuartet(dist_matrix, quartet)) =>
        (raised = "none" /\ ret = (TopGap(dist_matrix, quartet) = 0))

\* C5: negative case.  With n >= 4 and tolerance >= 0, if the two largest
\* pairing sums of some quartet differ by more than the tolerance, then
\* is_additive returns false.  (The tolerance is in hundredths, hence the
\* factor 100.)
C5_NegativeCase ==
    (/\ called = "is_additive"
     /\ len(dist_matrix) >= 4
     /\ tolerance >= 0
     /\ \E q \in Combinations(len(dist_matrix)) :
            100 * TopGap(dist_matrix, q) > tolerance) =>
        (raised = "none" /\ ret = FALSE)

\* C6: a quartet that is not 4 distinct valid indices makes fpc_sums, and
\* hence four_point_condition, fail with an error; neither returns a result
\* made from fewer than 3 pairing sums.
C6_InvalidQuartetFailsFast ==
    (/\ called \in {"fpc_sums", "four_point_condition"}
     /\ ~ValidQuartet(dist_matrix, quartet)) =>
        raised # "none"

\* C8: vacuous base case.  On a matrix of dimension n < 4 is_additive returns
\* true at every tolerance, 0 and negative ones included.
C8_VacuousBaseCase ==
    (called = "is_additive" /\ len(dist_matrix) < 4) =>
        (raised = "none" /\ ret = TRUE)

\* C10: the outcome of is_additive does not depend on the order in which the
\* quartets are evaluated nor on stopping at the first failure: the call
\* ends with a boolean, false only if some quartet fails and true only if
\* none does, and it leaves the matrix as it was.
C10_OrderAndEarlyExit ==
    [][CallIsAdditive =>
          /\ dist_matrix' = dist_matrix
          /\ raised' = "none"
          /\ (ret' = FALSE) =>
                 \E q \in Combinations(len(dist_matrix)) :
                     ~four_point_condition(dist_matrix, q, tolerance').value
          /\ (ret' = TRUE) =>
                 \A q \in Combinations(len(dist_matrix)) :
                     four_point_condition(dist_matrix, q, tolerance').value]_vars

====
